---- MODULE Spec2Model ----
(***************************************************************************)
(* VetChain: the AnimalNFT identity ledger (src/contracts/AnimalNFT.sol)   *)
(* and the MedicalStorage record log (src/unnamed/part_005), together with *)
(* the external License Directory they consult.  Every public function is  *)
(* one atomic action (one EVM transaction): a revert leaves the contract   *)
(* state untouched, and only the outcome of the call is recorded in last.  *)
(***************************************************************************)
EXTENDS Integers, Sequences, FiniteSets, TLC

\* ------------------------------------------------------------------ values

ZERO == "0x0"
Owners == {"o1", "o2"}
Vets == {"v1", "v2"}
Identities == Owners \cup Vets
Addresses == Identities \cup {ZERO}

\* the address of the AnimalNFT contract, and the deployer of MedicalStorage
LEDGER == "ledger"
ADMIN == "admin"

Animals == {1, 2}
Licenses == {0, 1, 2}
Uris == {"u1", "u2"}
Descs == {"cid"}

GENERAL == "GENERAL"
VACCINE == "VACCINE"
SURGERY == "SURGERY"
XRAY == "XRAY"
DECEASED == "DECEASED"
RecordType == {GENERAL, VACCINE, SURGERY, XRAY, DECEASED}

\* `1 days` in seconds, and the weaning age of _update
Day == 86400
SixtyDays == 60 * Day

\* uint256 arithmetic is checked (pragma ^0.8.20): a sum or product beyond the
\* largest representable value reverts with a panic.  The width is scaled to
\* the 31 bits of the model checker's integers.
UINT_MAX == 2147483647

\* block.timestamp at deployment, the step by which the clock advances, and
\* the number of steps modelled
T0 == 100 * Day
TickStep == 30 * Day
MaxTicks == 2
MaxNow == T0 + MaxTicks * TickStep

\* bounds of the exploration
MaxEpoch == 3
MaxHistory == 2

\* outcomes of a call
OK == "ok"
NotLicensed == {"NoLicenseLinked", "LicenseNotOwned", "LicenseLapsed"}
AnimalNotActive == {"AnimalNotActive", "NonexistentToken"}
LinkErrors == {"NotLicenseOwner", "LicenseInvalid"}

VARIABLES
    now,                    \* block.timestamp
    owners,                 \* ERC721 _owners: animal -> address (ZERO: none)
    tokenApprovals,         \* ERC721 _tokenApprovals: animal -> address
    operatorApprovals,      \* ERC721 _operatorApprovals: set of <<owner, operator>>
    tokenURIs,              \* ERC721URIStorage _tokenURIs ("" : unset)
    tokenNonce,             \* _tokenNonce
    vetApprovalNonce,       \* _vetApprovalNonce: animal -> vet -> nonce
    isLost,                 \* isLost
    vetWalletToLicenseId,   \* vetWalletToLicenseId
    vaccineExpiration,      \* MedicalStorage.vaccineExpiration
    birthDates,             \* MedicalStorage.birthDates
    history,                \* the MedicalRecordAdded events of each animal
    controllerContract,     \* MedicalStorage.controllerContract
    storageOwner,           \* MedicalStorage: Ownable._owner
    aptOwners,              \* VeterinaryGovernance.aptOwners: the addresses marked apt
    licOwner,               \* License Directory: vetNftContract.ownerOf
    licValid,               \* License Directory: vetRegistry.isValid
    last,                   \* the call just executed, its outcome and, for
                            \* setLostStatus, linkVetLicense, addMedicalRecord
                            \* and transferFrom, an argument of the call
    grant,                  \* history variable: the latest approveVet, the license
                            \* state of the vet at that time, and what became of it
    lapsed                  \* history variable: vets refused since they last linked

ledgerVars == <<owners, tokenApprovals, operatorApprovals, tokenURIs, tokenNonce,
                vetApprovalNonce, isLost, vetWalletToLicenseId>>
storageVars == <<vaccineExpiration, birthDates, history>>
directoryVars == <<licOwner, licValid>>
accessVars == <<controllerContract, storageOwner, aptOwners>>
contractVars == <<ledgerVars, storageVars>>
ghostVars == <<grant, lapsed>>
vars == <<now, ledgerVars, storageVars, accessVars, directoryVars, last, ghostVars>>

\* ------------------------------------------------------------ construction

NoCall == [op |-> "deploy", caller |-> ZERO, animal |-> 0, err |-> OK,
           status |-> FALSE, licenseId |-> 0, daysValid |-> 0, to |-> ZERO]

NoGrant == [pending |-> FALSE, by |-> ZERO, epoch |-> 0, moved |-> FALSE,
            ended |-> FALSE, stale |-> 0]

\* the system as deployed: MedicalStorage is constructed by the administrator,
\* who names the AnimalNFT contract as its controller
Init ==
    /\ now = T0
    /\ owners = [a \in Animals |-> ZERO]
    /\ tokenApprovals = [a \in Animals |-> ZERO]
    /\ operatorApprovals = {}
    /\ tokenURIs = [a \in Animals |-> ""]
    /\ tokenNonce = [a \in Animals |-> 0]
    /\ vetApprovalNonce = [a \in Animals |-> [v \in Identities |-> 0]]
    /\ isLost = [a \in Animals |-> FALSE]
    /\ vetWalletToLicenseId = [v \in Identities |-> 0]
    /\ vaccineExpiration = [a \in Animals |-> 0]
    /\ birthDates = [a \in Animals |-> 0]
    /\ history = [a \in Animals |-> <<>>]
    /\ controllerContract = LEDGER
    /\ storageOwner = ADMIN
    /\ aptOwners = {}
    /\ licOwner = [l \in Licenses |-> ZERO]
    /\ licValid = [l \in Licenses |-> FALSE]
    /\ last = NoCall
    /\ grant = [a \in Animals |-> [v \in Identities |-> NoGrant]]
    /\ lapsed = {}

\* -------------------------------------------------- views and modifiers

\* AnimalNFT.exists
exists(a) == owners[a] # ZERO

\* a vaccine still valid at the second of its expiry
isVaccineValidAtExpiry(a) == now <= vaccineExpiration[a]

\* MedicalStorage.isVaccineValid
isVaccineValid(a) == now < vaccineExpiration[a]

\* a record log open to every caller
controllerErrAnyone(c) == OK

\* MedicalStorage: modifier onlyController
controllerErr(c) == IF c # controllerContract THEN "NotController" ELSE OK

\* MedicalStorage: Ownable.onlyOwner
ownableErr(c) == IF c # storageOwner THEN "OwnableUnauthorizedAccount" ELSE OK

\* the modifier trusting the binding made by linkVetLicense
onlyValidVetCached(v) ==
    IF vetWalletToLicenseId[v] = 0 THEN "NoLicenseLinked" ELSE OK

\* modifier onlyValidVet: the bound license is re-read from the directory
onlyValidVet(v) ==
    LET licenseId == vetWalletToLicenseId[v] IN
    IF licenseId = 0 THEN "NoLicenseLinked"
    ELSE IF licOwner[licenseId] # v THEN "LicenseNotOwned"
    ELSE IF ~licValid[licenseId] THEN "LicenseLapsed"
    ELSE OK

\* the hook without rule 2
updateRulesLostIgnored(a, to, birth) ==
    IF owners[a] # ZERO /\ to # ZERO
    THEN IF ~isVaccineValid(a) THEN "VaccinationExpired"
         ELSE IF birth > 0 /\ birth > UINT_MAX - SixtyDays THEN "Panic"
         ELSE IF birth > 0 /\ ~(now >= birth + SixtyDays) THEN "BelowMinimumAge"
         ELSE OK
    ELSE OK

\* the rules of the _update hook, applied when the token has an owner and the
\* destination is an address; birth is MedicalStorage.getBirthDate at that point
updateRules(a, to, birth) ==
    IF owners[a] # ZERO /\ to # ZERO
    THEN IF ~isVaccineValid(a) THEN "VaccinationExpired"
         ELSE IF isLost[a] THEN "ReportedLost"
         ELSE IF birth > 0 /\ birth > UINT_MAX - SixtyDays THEN "Panic"
         ELSE IF birth > 0 /\ ~(now >= birth + SixtyDays) THEN "BelowMinimumAge"
         ELSE OK
    ELSE OK

\* a hook that leaves the nonce alone
nonceKept(a) == tokenNonce[a]

\* the nonce after _update: incremented whenever the token had an owner
nonceAfterUpdate(a) == IF owners[a] # ZERO THEN tokenNonce[a] + 1 ELSE tokenNonce[a]

\* an authorization check that also accepts the vet approved on the animal
isAuthorizedVetToo(owner, spender, a) ==
    /\ spender # ZERO
    /\ \/ owner = spender
       \/ <<owner, spender>> \in operatorApprovals
       \/ tokenApprovals[a] = spender
       \/ vetApprovalNonce[a][spender] = tokenNonce[a]

\* ERC721._isAuthorized, reached through super._update
isAuthorized(owner, spender, a) ==
    /\ spender # ZERO
    /\ \/ owner = spender
       \/ <<owner, spender>> \in operatorApprovals
       \/ tokenApprovals[a] = spender

\* ERC721.transferFrom through the _update hook
transferErr(c, a, from, to) ==
    IF to = ZERO THEN "InvalidReceiver"
    ELSE IF updateRules(a, to, birthDates[a]) # OK THEN updateRules(a, to, birthDates[a])
    ELSE IF ~isAuthorized(owners[a], c, a)
         THEN IF owners[a] = ZERO THEN "NonexistentToken" ELSE "InsufficientApproval"
    ELSE IF owners[a] # from THEN "IncorrectOwner"
    ELSE OK

\* registerAnimal: onlyValidVet, setBirthDate, nonce, then _safeMint, whose
\* _update runs the hook before ERC721._mint rejects a token that had an owner
registerErr(v, to, a, birth) ==
    IF onlyValidVet(v) # OK THEN onlyValidVet(v)
    ELSE IF controllerErr(LEDGER) # OK THEN controllerErr(LEDGER)
    ELSE IF to = ZERO THEN "InvalidReceiver"
    ELSE IF updateRules(a, to, birth) # OK THEN updateRules(a, to, birth)
    ELSE IF owners[a] # ZERO THEN "InvalidSender"
    ELSE OK

\* MedicalStorage.addEntry: the new vaccineExpiration, or a panic
entryOverflows(t, daysValid) ==
    /\ t = VACCINE
    /\ \/ daysValid > UINT_MAX \div Day
       \/ now > UINT_MAX - daysValid * Day

\* an expiry that a new vaccine can only extend
expirationExtended(a, t, daysValid) ==
    IF t = VACCINE /\ now + daysValid * Day > vaccineExpiration[a]
    THEN now + daysValid * Day ELSE vaccineExpiration[a]

expirationAfter(a, t, daysValid) ==
    IF t = VACCINE THEN now + daysValid * Day ELSE vaccineExpiration[a]

\* the MedicalRecordAdded event
Entry(desc, v, t) == [timestamp |-> now, descriptionIpfs |-> desc, vet |-> v,
                      recordType |-> t]

\* MedicalStorage.addEntry called by c
entryErr(c, t, daysValid) ==
    IF controllerErr(c) # OK THEN controllerErr(c)
    ELSE IF entryOverflows(t, daysValid) THEN "Panic"
    ELSE OK

\* the approval a vet needs to write
hasApproval(a, v) == vetApprovalNonce[a][v] = tokenNonce[a]

\* a write that is refused while the animal is reported lost
addRecordErrLostRefused(v, a, t, daysValid) ==
    IF onlyValidVet(v) # OK THEN onlyValidVet(v)
    ELSE IF ~exists(a) THEN "AnimalNotActive"
    ELSE IF isLost[a] THEN "ReportedLost"
    ELSE IF ~hasApproval(a, v) THEN "AuthorizationExpiredOrMissing"
    ELSE IF controllerErr(LEDGER) # OK THEN controllerErr(LEDGER)
    ELSE IF entryOverflows(t, daysValid) THEN "Panic"
    ELSE OK

\* addMedicalRecord: onlyValidVet, exists, the approval, then addEntry
addRecordErr(v, a, t, daysValid) ==
    IF onlyValidVet(v) # OK THEN onlyValidVet(v)
    ELSE IF ~exists(a) THEN "AnimalNotActive"
    ELSE IF ~hasApproval(a, v) THEN "AuthorizationExpiredOrMissing"
    ELSE IF controllerErr(LEDGER) # OK THEN controllerErr(LEDGER)
    ELSE IF entryOverflows(t, daysValid) THEN "Panic"
    ELSE OK

\* reportDecease asking for the owner's approval as addMedicalRecord does
deceaseErrOwnerGated(v, a) ==
    IF onlyValidVet(v) # OK THEN onlyValidVet(v)
    ELSE IF owners[a] = ZERO THEN "NonexistentToken"
    ELSE IF vetApprovalNonce[a][v] # tokenNonce[a] THEN "AuthorizationExpiredOrMissing"
    ELSE OK

\* reportDecease: onlyValidVet, addEntry, then tokenURI and _burn on the token
deceaseErr(v, a) ==
    IF onlyValidVet(v) # OK THEN onlyValidVet(v)
    ELSE IF controllerErr(LEDGER) # OK THEN controllerErr(LEDGER)
    ELSE IF owners[a] = ZERO THEN "NonexistentToken"
    ELSE OK

\* the owner's operations open to every caller
ownerErrAnyone(c, a) ==
    IF owners[a] = ZERO THEN "NonexistentToken" ELSE OK

\* ownerOf(_tokenId) == msg.sender, then exists(_tokenId)
ownerErr(c, a) ==
    IF owners[a] = ZERO THEN "NonexistentToken"
    ELSE IF owners[a] # c THEN "NotOwner"
    ELSE IF ~exists(a) THEN "AnimalNotActive"
    ELSE OK

\* a link that asks for ownership of the license only
linkErrValidityIgnored(v, l) ==
    IF licOwner[l] # v THEN "NotLicenseOwner" ELSE OK

linkErr(v, l) ==
    IF licOwner[l] # v THEN "NotLicenseOwner"
    ELSE IF ~licValid[l] THEN "LicenseInvalid"
    ELSE OK

\* ERC721.approve: the caller is the owner or an operator of the owner
approveErr(c, a) ==
    IF owners[a] = ZERO THEN "NonexistentToken"
    ELSE IF owners[a] # c /\ <<owners[a], c>> \notin operatorApprovals THEN "InvalidApprover"
    ELSE OK

\* status is the _status argument of setLostStatus, licenseId the argument of
\* linkVetLicense, daysValid the argument of addMedicalRecord and to the
\* recipient of a completed transferFrom; they are FALSE, 0 and ZERO otherwise
Call(op, c, a, e) == [op |-> op, caller |-> c, animal |-> a, err |-> e,
                      status |-> FALSE, licenseId |-> 0, daysValid |-> 0,
                      to |-> ZERO]

\* --------------------------------------------------------------- operations

\* what a completed transfer, or the end or start of a registration, means for
\* the grants already given on the animal
grantsMoved(a) == [v \in Identities |->
    IF grant[a][v].by # ZERO THEN [grant[a][v] EXCEPT !.moved = TRUE] ELSE grant[a][v]]

grantsEnded(a) == [v \in Identities |->
    IF grant[a][v].by # ZERO THEN [grant[a][v] EXCEPT !.ended = TRUE] ELSE grant[a][v]]

\* a vet with a bound license who is refused by onlyValidVet
refused(v, e) == IF e \in NotLicensed /\ vetWalletToLicenseId[v] # 0
                 THEN lapsed \cup {v} ELSE lapsed

\* the license a vet is bound to while the directory does not vouch for it
staleLicense(v) == IF onlyValidVet(v) # OK THEN vetWalletToLicenseId[v] ELSE 0

\* a write that consumes every approval given on the animal
approvalsCleared(a, v) == [vetApprovalNonce EXCEPT ![a] = [w \in Identities |-> 0]]

\* the approval left in place after the write
approvalsKept(a, v) == vetApprovalNonce

\* delete _vetApprovalNonce[_tokenId][msg.sender]
approvalsAfterWrite(a, v) == [vetApprovalNonce EXCEPT ![a][v] = 0]

linkVetLicense(v, l) ==
    LET e == linkErr(v, l) IN
    /\ last' = [Call("linkVetLicense", v, 0, e) EXCEPT !.licenseId = l]
    /\ IF e = OK
       THEN /\ vetWalletToLicenseId' = [vetWalletToLicenseId EXCEPT ![v] = l]
            /\ lapsed' = lapsed \ {v}
       ELSE UNCHANGED <<vetWalletToLicenseId, lapsed>>
    /\ UNCHANGED <<now, accessVars, owners, tokenApprovals, operatorApprovals, tokenURIs, tokenNonce,
                   vetApprovalNonce, isLost, storageVars, directoryVars, grant>>

\* a registration whose birth date outlives the failure of the mint
registerAnimalBirthKept(v, to, a, uri, birth) ==
    LET e == registerErr(v, to, a, birth) IN
    /\ last' = Call("registerAnimal", v, a, e)
    /\ lapsed' = refused(v, e)
    /\ birthDates' = IF onlyValidVet(v) = OK THEN [birthDates EXCEPT ![a] = birth]
                     ELSE birthDates
    /\ IF e = OK
       THEN /\ tokenNonce' = [tokenNonce EXCEPT ![a] = 1]
            /\ owners' = [owners EXCEPT ![a] = to]
            /\ tokenURIs' = [tokenURIs EXCEPT ![a] = uri]
            /\ grant' = [grant EXCEPT ![a] = grantsEnded(a)]
       ELSE UNCHANGED <<tokenNonce, owners, tokenURIs, grant>>
    /\ UNCHANGED <<now, accessVars, tokenApprovals, operatorApprovals, vetApprovalNonce, isLost,
                   vetWalletToLicenseId, vaccineExpiration, history, directoryVars>>

\* a registration that starts the log of the chip anew
registerAnimalLogCleared(v, to, a, uri, birth) ==
    LET e == registerErr(v, to, a, birth) IN
    /\ last' = Call("registerAnimal", v, a, e)
    /\ lapsed' = refused(v, e)
    /\ IF e = OK
       THEN /\ birthDates' = [birthDates EXCEPT ![a] = birth]
            /\ tokenNonce' = [tokenNonce EXCEPT ![a] = 1]
            /\ owners' = [owners EXCEPT ![a] = to]
            /\ tokenURIs' = [tokenURIs EXCEPT ![a] = uri]
            /\ history' = [history EXCEPT ![a] = <<>>]
            /\ grant' = [grant EXCEPT ![a] = grantsEnded(a)]
       ELSE UNCHANGED <<birthDates, tokenNonce, owners, tokenURIs, history, grant>>
    /\ UNCHANGED <<now, accessVars, tokenApprovals, operatorApprovals, vetApprovalNonce, isLost,
                   vetWalletToLicenseId, vaccineExpiration, directoryVars>>

\* a registration that starts the nonce of the chip at 0
registerAnimalEpochZero(v, to, a, uri, birth) ==
    LET e == registerErr(v, to, a, birth) IN
    /\ last' = Call("registerAnimal", v, a, e)
    /\ lapsed' = refused(v, e)
    /\ IF e = OK
       THEN /\ birthDates' = [birthDates EXCEPT ![a] = birth]
            /\ tokenNonce' = [tokenNonce EXCEPT ![a] = 0]
            /\ owners' = [owners EXCEPT ![a] = to]
            /\ tokenURIs' = [tokenURIs EXCEPT ![a] = uri]
            /\ grant' = [grant EXCEPT ![a] = grantsEnded(a)]
       ELSE UNCHANGED <<birthDates, tokenNonce, owners, tokenURIs, grant>>
    /\ UNCHANGED <<now, accessVars, tokenApprovals, operatorApprovals, vetApprovalNonce,
                   isLost, vetWalletToLicenseId, vaccineExpiration, history,
                   directoryVars>>

\* a registration that leaves the nonce of the chip as it finds it
registerAnimalNonceKept(v, to, a, uri, birth) ==
    LET e == registerErr(v, to, a, birth) IN
    /\ last' = Call("registerAnimal", v, a, e)
    /\ lapsed' = refused(v, e)
    /\ IF e = OK
       THEN /\ birthDates' = [birthDates EXCEPT ![a] = birth]
            /\ owners' = [owners EXCEPT ![a] = to]
            /\ tokenURIs' = [tokenURIs EXCEPT ![a] = uri]
            /\ grant' = [grant EXCEPT ![a] = grantsEnded(a)]
       ELSE UNCHANGED <<birthDates, owners, tokenURIs, grant>>
    /\ UNCHANGED <<now, accessVars, tokenApprovals, operatorApprovals, tokenNonce, vetApprovalNonce,
                   isLost, vetWalletToLicenseId, vaccineExpiration, history,
                   directoryVars>>

registerAnimal(v, to, a, uri, birth) ==
    LET e == registerErr(v, to, a, birth) IN
    /\ last' = Call("registerAnimal", v, a, e)
    /\ lapsed' = refused(v, e)
    /\ IF e = OK
       THEN /\ birthDates' = [birthDates EXCEPT ![a] = birth]
            /\ tokenNonce' = [tokenNonce EXCEPT ![a] = 1]
            /\ owners' = [owners EXCEPT ![a] = to]
            /\ tokenURIs' = [tokenURIs EXCEPT ![a] = uri]
            /\ grant' = [grant EXCEPT ![a] = grantsEnded(a)]
       ELSE UNCHANGED <<birthDates, tokenNonce, owners, tokenURIs, grant>>
    /\ UNCHANGED <<now, accessVars, tokenApprovals, operatorApprovals, vetApprovalNonce, isLost,
                   vetWalletToLicenseId, vaccineExpiration, history, directoryVars>>

\* a grant that is refused unless the vet holds a valid license
approveVetLicensed(c, v, a) ==
    LET e == IF ownerErr(c, a) # OK THEN ownerErr(c, a) ELSE onlyValidVet(v) IN
    /\ last' = Call("approveVet", c, a, e)
    /\ IF e = OK
       THEN /\ vetApprovalNonce' = [vetApprovalNonce EXCEPT ![a][v] = tokenNonce[a]]
            /\ grant' = [grant EXCEPT ![a][v] = [pending |-> TRUE, by |-> c,
                            epoch |-> tokenNonce[a], moved |-> FALSE, ended |-> FALSE,
                            stale |-> staleLicense(v)]]
       ELSE UNCHANGED <<vetApprovalNonce, grant>>
    /\ UNCHANGED <<now, accessVars, owners, tokenApprovals, operatorApprovals, tokenURIs, tokenNonce,
                   isLost, vetWalletToLicenseId, storageVars, directoryVars, lapsed>>

approveVet(c, v, a) ==
    LET e == ownerErr(c, a) IN
    /\ last' = Call("approveVet", c, a, e)
    /\ IF e = OK
       THEN /\ vetApprovalNonce' = [vetApprovalNonce EXCEPT ![a][v] = tokenNonce[a]]
            /\ grant' = [grant EXCEPT ![a][v] = [pending |-> TRUE, by |-> c,
                            epoch |-> tokenNonce[a], moved |-> FALSE, ended |-> FALSE,
                            stale |-> staleLicense(v)]]
       ELSE UNCHANGED <<vetApprovalNonce, grant>>
    /\ UNCHANGED <<now, accessVars, owners, tokenApprovals, operatorApprovals, tokenURIs, tokenNonce,
                   isLost, vetWalletToLicenseId, storageVars, directoryVars, lapsed>>

addMedicalRecord(v, a, desc, t, daysValid) ==
    LET e == addRecordErr(v, a, t, daysValid) IN
    /\ last' = [Call("addMedicalRecord", v, a, e) EXCEPT !.daysValid = daysValid]
    /\ lapsed' = refused(v, e)
    /\ IF e = OK
       THEN /\ vaccineExpiration' = [vaccineExpiration EXCEPT
                                        ![a] = expirationAfter(a, t, daysValid)]
            /\ history' = [history EXCEPT ![a] = Append(@, Entry(desc, v, t))]
            /\ vetApprovalNonce' = approvalsAfterWrite(a, v)
            /\ grant' = [grant EXCEPT ![a][v].pending = FALSE]
       ELSE UNCHANGED <<vaccineExpiration, history, vetApprovalNonce, grant>>
    /\ UNCHANGED <<now, accessVars, owners, tokenApprovals, operatorApprovals, tokenURIs, tokenNonce,
                   isLost, vetWalletToLicenseId, birthDates, directoryVars>>

\* a decease whose terminal record outlives the failure of the token check
reportDeceaseEntryKept(v, a, cert) ==
    LET e == deceaseErr(v, a) IN
    /\ last' = Call("reportDecease", v, a, e)
    /\ lapsed' = refused(v, e)
    /\ history' = IF onlyValidVet(v) = OK
                  THEN [history EXCEPT ![a] = Append(@, Entry(cert, v, DECEASED))]
                  ELSE history
    /\ IF e = OK
       THEN /\ tokenNonce' = [tokenNonce EXCEPT ![a] = nonceAfterUpdate(a)]
            /\ tokenApprovals' = [tokenApprovals EXCEPT ![a] = ZERO]
            /\ owners' = [owners EXCEPT ![a] = ZERO]
            /\ grant' = [grant EXCEPT ![a] = grantsEnded(a)]
       ELSE UNCHANGED <<tokenNonce, tokenApprovals, owners, grant>>
    /\ UNCHANGED <<now, accessVars, operatorApprovals, tokenURIs, vetApprovalNonce, isLost,
                   vetWalletToLicenseId, vaccineExpiration, birthDates, directoryVars>>

reportDecease(v, a, cert) ==
    LET e == deceaseErr(v, a) IN
    /\ last' = Call("reportDecease", v, a, e)
    /\ lapsed' = refused(v, e)
    /\ IF e = OK
       THEN /\ history' = [history EXCEPT ![a] = Append(@, Entry(cert, v, DECEASED))]
            /\ tokenNonce' = [tokenNonce EXCEPT ![a] = nonceAfterUpdate(a)]
            /\ tokenApprovals' = [tokenApprovals EXCEPT ![a] = ZERO]
            /\ owners' = [owners EXCEPT ![a] = ZERO]
            /\ grant' = [grant EXCEPT ![a] = grantsEnded(a)]
       ELSE UNCHANGED <<history, tokenNonce, tokenApprovals, owners, grant>>
    /\ UNCHANGED <<now, accessVars, operatorApprovals, tokenURIs, vetApprovalNonce, isLost,
                   vetWalletToLicenseId, vaccineExpiration, birthDates, directoryVars>>

\* a flag that is flipped on each call
setLostStatusFlipped(c, a, status) ==
    LET e == ownerErr(c, a) IN
    /\ last' = [Call("setLostStatus", c, a, e) EXCEPT !.status = status]
    /\ isLost' = IF e = OK THEN [isLost EXCEPT ![a] = ~isLost[a]] ELSE isLost
    /\ UNCHANGED <<now, accessVars, owners, tokenApprovals, operatorApprovals, tokenURIs, tokenNonce,
                   vetApprovalNonce, vetWalletToLicenseId, storageVars, directoryVars,
                   ghostVars>>

setLostStatus(c, a, status) ==
    LET e == ownerErr(c, a) IN
    /\ last' = [Call("setLostStatus", c, a, e) EXCEPT !.status = status]
    /\ isLost' = IF e = OK THEN [isLost EXCEPT ![a] = status] ELSE isLost
    /\ UNCHANGED <<now, accessVars, owners, tokenApprovals, operatorApprovals, tokenURIs, tokenNonce,
                   vetApprovalNonce, vetWalletToLicenseId, storageVars, directoryVars,
                   ghostVars>>

\* ERC721.transferFrom(from, to, tokenId) sent by c
transferFrom(c, a, from, to) ==
    LET e == transferErr(c, a, from, to) IN
    /\ last' = [Call("transferFrom", c, a, e) EXCEPT !.to = IF e = OK THEN to ELSE ZERO]
    /\ IF e = OK
       THEN /\ tokenNonce' = [tokenNonce EXCEPT ![a] = nonceAfterUpdate(a)]
            /\ tokenApprovals' = [tokenApprovals EXCEPT ![a] = ZERO]
            /\ owners' = [owners EXCEPT ![a] = to]
            /\ grant' = [grant EXCEPT ![a] = grantsMoved(a)]
       ELSE UNCHANGED <<tokenNonce, tokenApprovals, owners, grant>>
    /\ UNCHANGED <<now, accessVars, operatorApprovals, tokenURIs, vetApprovalNonce, isLost,
                   vetWalletToLicenseId, storageVars, directoryVars, lapsed>>

\* ERC721.approve(to, tokenId) sent by c: the transfer grant for one token
approve(c, to, a) ==
    LET e == approveErr(c, a) IN
    /\ last' = Call("approve", c, a, e)
    /\ tokenApprovals' = IF e = OK THEN [tokenApprovals EXCEPT ![a] = to]
                         ELSE tokenApprovals
    /\ UNCHANGED <<now, accessVars, owners, operatorApprovals, tokenURIs, tokenNonce,
                   vetApprovalNonce, isLost, vetWalletToLicenseId, storageVars,
                   directoryVars, ghostVars>>

\* ERC721.setApprovalForAll(operator, approved) sent by c: the transfer grant
\* for every token of c
setApprovalForAll(c, operator, approved) ==
    LET e == IF operator = ZERO THEN "InvalidOperator" ELSE OK IN
    /\ last' = [Call("setApprovalForAll", c, 0, e) EXCEPT !.status = approved]
    /\ operatorApprovals' = IF e # OK THEN operatorApprovals
                            ELSE IF approved THEN operatorApprovals \cup {<<c, operator>>}
                            ELSE operatorApprovals \ {<<c, operator>>}
    /\ UNCHANGED <<now, accessVars, owners, tokenApprovals, tokenURIs, tokenNonce,
                   vetApprovalNonce, isLost, vetWalletToLicenseId, storageVars,
                   directoryVars, ghostVars>>

\* ---------------------------------------- MedicalStorage, called directly

\* MedicalStorage.setController(_controller) sent by c
setController(c, ctl) ==
    LET e == ownableErr(c) IN
    /\ last' = Call("setController", c, 0, e)
    /\ controllerContract' = IF e = OK THEN ctl ELSE controllerContract
    /\ UNCHANGED <<now, ledgerVars, storageVars, storageOwner, aptOwners, directoryVars,
                   ghostVars>>

\* Ownable.transferOwnership(newOwner) of MedicalStorage sent by c
transferOwnership(c, newOwner) ==
    LET e == IF ownableErr(c) # OK THEN ownableErr(c)
             ELSE IF newOwner = ZERO THEN "OwnableInvalidOwner"
             ELSE OK IN
    /\ last' = Call("transferOwnership", c, 0, e)
    /\ storageOwner' = IF e = OK THEN newOwner ELSE storageOwner
    /\ UNCHANGED <<now, ledgerVars, storageVars, controllerContract, aptOwners,
                   directoryVars, ghostVars>>

\* MedicalStorage.setBirthDate(_tokenId, _birthDate) sent by c
setBirthDate(c, a, birth) ==
    LET e == controllerErr(c) IN
    /\ last' = Call("setBirthDate", c, a, e)
    /\ birthDates' = IF e = OK THEN [birthDates EXCEPT ![a] = birth] ELSE birthDates
    /\ UNCHANGED <<now, ledgerVars, vaccineExpiration, history, accessVars,
                   directoryVars, ghostVars>>

\* MedicalStorage.addEntry(_tokenId, _ipfsHash, _vet, _type, _daysValid) sent by c
addEntry(c, a, desc, v, t, daysValid) ==
    LET e == entryErr(c, t, daysValid) IN
    /\ last' = [Call("addEntry", c, a, e) EXCEPT !.daysValid = daysValid]
    /\ IF e = OK
       THEN /\ vaccineExpiration' = [vaccineExpiration EXCEPT
                                        ![a] = expirationAfter(a, t, daysValid)]
            /\ history' = [history EXCEPT ![a] = Append(@, Entry(desc, v, t))]
       ELSE UNCHANGED <<vaccineExpiration, history>>
    /\ UNCHANGED <<now, ledgerVars, birthDates, accessVars, directoryVars, ghostVars>>

\* ----------------------------------------------------- VeterinaryGovernance

\* setAptOwnerStatus(_person, _status) sent by c: the administrator marks an
\* address as apt to own an animal, or withdraws the mark
setAptOwnerStatus(c, person, status) ==
    LET e == IF c # ADMIN THEN "OwnableUnauthorizedAccount" ELSE OK IN
    /\ last' = [Call("setAptOwnerStatus", c, 0, e) EXCEPT !.status = status]
    /\ aptOwners' = IF e # OK THEN aptOwners
                    ELSE IF status THEN aptOwners \cup {person}
                    ELSE aptOwners \ {person}
    /\ UNCHANGED <<now, ledgerVars, storageVars, controllerContract, storageOwner,
                   directoryVars, ghostVars>>

\* ------------------------------------------------------------- environment

\* the clock of the chain
Tick ==
    /\ now + TickStep <= MaxNow
    /\ now' = now + TickStep
    /\ last' = [NoCall EXCEPT !.op = "tick"]
    /\ UNCHANGED <<ledgerVars, storageVars, accessVars, directoryVars, ghostVars>>

\* the License Directory issues or moves the license NFT, and validates or
\* revokes a license
directoryTransfer(l, to) ==
    /\ licOwner[l] # to
    /\ licOwner' = [licOwner EXCEPT ![l] = to]
    /\ last' = [NoCall EXCEPT !.op = "directoryTransfer"]
    /\ UNCHANGED <<now, accessVars, ledgerVars, storageVars, licValid, ghostVars>>

directorySetValid(l, b) ==
    /\ licValid[l] # b
    /\ licValid' = [licValid EXCEPT ![l] = b]
    /\ last' = [NoCall EXCEPT !.op = "directorySetValid"]
    /\ UNCHANGED <<now, accessVars, ledgerVars, storageVars, licOwner, ghostVars>>

\* ---------------------------------------------------------- specifications

\* birth dates a vet may register: unset, the day of deployment, and a value
\* within sixty days of the largest integer
BirthHuge == UINT_MAX - Day
BirthDates == {0, T0, BirthHuge}

\* validity of a vaccine in days: none, one that lapses within two clock
\* steps, and one whose expiry is not representable
DaysHuge == UINT_MAX \div Day
DaysValid == {0, 45, DaysHuge}

\* the exploration stops where a log or a nonce would pass its bound
room(a, h) == Len(history[a]) < h
young(a) == tokenNonce[a] < MaxEpoch

write(v, a, t, d, h) ==
    /\ addRecordErr(v, a, t, d) = OK => room(a, h)
    /\ addMedicalRecord(v, a, "cid", t, d)

decease(v, a, h) ==
    /\ deceaseErr(v, a) = OK => room(a, h) /\ young(a)
    /\ reportDecease(v, a, "cid")

transfer(c, a, from, to) ==
    /\ transferErr(c, a, from, to) = OK => young(a)
    /\ transferFrom(c, a, from, to)

\* The ledger at a fixed block time: registration, grants, writes, transfers,
\* transfer grants and decease of one animal, with one licensed vet.
NextLedger ==
    \/ linkVetLicense("v1", 1)
    \/ \E birth \in {0, T0} : registerAnimal("v1", "o1", 1, "u1", birth)
    \/ \E c \in Owners : approveVet(c, "v1", 1)
    \/ \E t \in RecordType : write("v1", 1, t, 45, MaxHistory)
    \/ decease("v1", 1, MaxHistory)
    \/ \E c \in Owners, s \in BOOLEAN : setLostStatus(c, 1, s)
    \/ \E c \in Owners \cup {"v1"}, from \in Owners, to \in Owners :
            transfer(c, 1, from, to)
    \/ \E c \in Owners : approve(c, "v1", 1)
    \/ directoryTransfer(1, "v1")
    \/ directorySetValid(1, TRUE)

SpecLedger == Init /\ [][NextLedger]_vars

\* The same ledger followed through a decease and a second registration of
\* the same chip: one more record fits in the log.
ReuseHistory == 3

NextReuse ==
    \/ linkVetLicense("v1", 1)
    \/ registerAnimal("v1", "o1", 1, "u1", 0)
    \/ \E c \in Owners : approveVet(c, "v1", 1)
    \/ write("v1", 1, VACCINE, 45, ReuseHistory)
    \/ decease("v1", 1, ReuseHistory)
    \/ \E c \in Owners, from \in Owners, to \in Owners : transfer(c, 1, from, to)
    \/ directoryTransfer(1, "v1")
    \/ directorySetValid(1, TRUE)

SpecReuse == Init /\ [][NextReuse]_vars

\* The transfer rules as the clock advances: vaccines lapse and animals grow
\* older, and sums of timestamps may leave the integer range.
ClockHistory == 1

NextClock ==
    \/ linkVetLicense("v1", 1)
    \/ \E birth \in BirthDates : registerAnimal("v1", "o1", 1, "u1", birth)
    \/ \E c \in Owners : approveVet(c, "v1", 1)
    \/ \E d \in DaysValid : write("v1", 1, VACCINE, d, ClockHistory)
    \/ decease("v1", 1, ClockHistory)
    \/ \E s \in BOOLEAN : setLostStatus("o1", 1, s)
    \/ \E c \in Owners, from \in Owners, to \in Owners \cup {ZERO} :
            transfer(c, 1, from, to)
    \/ Tick
    \/ directoryTransfer(1, "v1")
    \/ directorySetValid(1, TRUE)

SpecClock == Init /\ [][NextClock]_vars

\* The License Directory changing under the ledger: the license is issued,
\* moved between vets, revoked and reinstated while vets link and act.
NextLicense ==
    \/ \E v \in Vets, l \in {0, 1} : linkVetLicense(v, l)
    \/ \E v \in Vets : registerAnimal(v, "o1", 1, "u1", 0)
    \/ \E v \in Vets : approveVet("o1", v, 1)
    \/ \E v \in Vets : write(v, 1, VACCINE, 45, MaxHistory)
    \/ \E v \in Vets : decease(v, 1, MaxHistory)
    \/ \E to \in Vets \cup {ZERO} : directoryTransfer(1, to)
    \/ \E b \in BOOLEAN : directorySetValid(1, b)

SpecLicense == Init /\ [][NextLicense]_vars

\* Two chips at the clinic: each is registered with its own owner, metadata
\* and birth date, written to, reported deceased and registered again.
Intake(a) == IF a = 1 THEN [owner |-> "o1", uri |-> "u1", birth |-> 0]
             ELSE [owner |-> "o2", uri |-> "u2", birth |-> T0]

NextIntake ==
    \/ linkVetLicense("v1", 1)
    \/ \E a \in Animals :
            registerAnimal("v1", Intake(a).owner, a, Intake(a).uri, Intake(a).birth)
    \/ \E a \in Animals, c \in Owners : approveVet(c, "v1", a)
    \/ \E a \in Animals : write("v1", a, GENERAL, 0, MaxHistory)
    \/ \E a \in Animals : decease("v1", a, MaxHistory)
    \/ directoryTransfer(1, "v1")
    \/ directorySetValid(1, TRUE)

SpecIntake == Init /\ [][NextIntake]_vars

\* The owner's side of the ledger: grants, the lost flag and transfers by the
\* owner of the moment and by the other owner, on a vaccinated animal.
NextCustody ==
    \/ linkVetLicense("v1", 1)
    \/ \E birth \in {0, T0} : registerAnimal("v1", "o1", 1, "u1", birth)
    \/ \E c \in Owners : approveVet(c, "v1", 1)
    \/ write("v1", 1, VACCINE, 45, MaxHistory)
    \/ decease("v1", 1, MaxHistory)
    \/ \E c \in Owners, s \in BOOLEAN : setLostStatus(c, 1, s)
    \/ \E c \in Owners, from \in Owners, to \in Owners : transfer(c, 1, from, to)
    \/ directoryTransfer(1, "v1")
    \/ directorySetValid(1, TRUE)

SpecCustody == Init /\ [][NextCustody]_vars

\* The record log over time: records of every type and vaccines of several
\* validities, one of them ending exactly on a clock step, are appended and
\* the decease is reported while the clock advances.
VaccineDays == {0, 30, 45, DaysHuge}
VaccineHistory == 2

NextVaccine ==
    \/ linkVetLicense("v1", 1)
    \/ registerAnimal("v1", "o1", 1, "u1", 0)
    \/ approveVet("o1", "v1", 1)
    \/ \E t \in RecordType \ {VACCINE} : write("v1", 1, t, 45, VaccineHistory)
    \/ \E d \in VaccineDays : write("v1", 1, VACCINE, d, VaccineHistory)
    \/ decease("v1", 1, VaccineHistory)
    \/ transfer("o1", 1, "o1", "o2")
    \/ Tick
    \/ directoryTransfer(1, "v1")
    \/ directorySetValid(1, TRUE)

SpecVaccine == Init /\ [][NextVaccine]_vars

\* Two licenses in the directory: vets link, lose and regain licenses and link
\* again to the other one, while the owner grants and the animal changes hands.
NextRelink ==
    \/ \E v \in Vets, l \in {1, 2} : linkVetLicense(v, l)
    \/ registerAnimal("v2", "o1", 1, "u1", 0)
    \/ \E c \in Owners : approveVet(c, "v1", 1)
    \/ write("v1", 1, VACCINE, 45, MaxHistory)
    \/ transfer("o1", 1, "o1", "o2")
    \/ \E l \in {1, 2}, to \in Vets : directoryTransfer(l, to)
    \/ \E l \in {1, 2}, b \in BOOLEAN : directorySetValid(l, b)

SpecRelink == Init /\ [][NextRelink]_vars

\* Owners and vets handing one animal around: every transfer is issued with
\* the sender as from, to somebody else, whether or not the sender owns it,
\* while the governance marks one of the owners as apt or withdraws the mark.
NextRace ==
    \/ linkVetLicense("v1", 1)
    \/ \E birth \in {0, T0} : registerAnimal("v1", "o1", 1, "u1", birth)
    \/ \E c \in Identities : approveVet(c, "v1", 1)
    \/ write("v1", 1, VACCINE, 45, MaxHistory)
    \/ \E c \in Identities, s \in BOOLEAN : setLostStatus(c, 1, s)
    \/ \E c \in Identities : \E to \in Identities \ {c} : transfer(c, 1, c, to)
    \/ \E c \in {ADMIN, "o1"}, s \in BOOLEAN : setAptOwnerStatus(c, "o2", s)
    \/ directoryTransfer(1, "v1")
    \/ directorySetValid(1, TRUE)

SpecRace == Init /\ [][NextRace]_vars

\* The record log called directly, by owners, vets, the administrator and
\* whoever the administrator names as controller or as next administrator.
entry(c, a, v, t, d, h) ==
    /\ entryErr(c, t, d) = OK => room(a, h)
    /\ addEntry(c, a, "cid", v, t, d)

StorageCallers == {"o1", "v1", ADMIN}

NextStorage ==
    \/ linkVetLicense("v1", 1)
    \/ registerAnimal("v1", "o1", 1, "u1", 0)
    \/ approveVet("o1", "v1", 1)
    \/ write("v1", 1, VACCINE, 45, MaxHistory)
    \/ decease("v1", 1, MaxHistory)
    \/ \E c \in StorageCallers, ctl \in {LEDGER, "o1", ZERO} : setController(c, ctl)
    \/ \E c \in StorageCallers, to \in {"o1", ZERO} : transferOwnership(c, to)
    \/ \E c \in StorageCallers, birth \in {0, T0} : setBirthDate(c, 1, birth)
    \/ \E c \in StorageCallers, t \in {GENERAL, VACCINE} :
            entry(c, 1, "v1", t, 45, MaxHistory)
    \/ directoryTransfer(1, "v1")
    \/ directorySetValid(1, TRUE)

SpecStorage == Init /\ [][NextStorage]_vars

\* Two chips and two vets, each vet with a license of their own: the owners
\* grant either vet on either animal and both are written to, while the first
\* is handed over or reported deceased and the second is flagged as lost.
IsolationHistory == 1
License(v) == IF v = "v1" THEN 1 ELSE 2

NextIsolation ==
    \/ \E v \in Vets : linkVetLicense(v, License(v))
    \/ \E a \in Animals :
            registerAnimal("v1", Intake(a).owner, a, Intake(a).uri, Intake(a).birth)
    \/ \E a \in Animals, v \in Vets : approveVet(Intake(a).owner, v, a)
    \/ \E a \in Animals, v \in Vets : write(v, a, VACCINE, 45, IsolationHistory)
    \/ decease("v2", 1, IsolationHistory)
    \/ setLostStatus("o2", 2, TRUE)
    \/ transfer("o1", 1, "o1", "o2")
    \/ \E v \in Vets : directoryTransfer(License(v), v)
    \/ \E v \in Vets : directorySetValid(License(v), TRUE)

SpecIsolation == Init /\ [][NextIsolation]_vars

\* A directory that numbers its licenses from 0: the vet is issued license 0
\* or license 1, links either, and acts while the directory revokes and
\* reinstates them.
NextZero ==
    \/ \E l \in {0, 1} : linkVetLicense("v1", l)
    \/ registerAnimal("v1", "o1", 1, "u1", 0)
    \/ approveVet("o1", "v1", 1)
    \/ write("v1", 1, VACCINE, 45, MaxHistory)
    \/ decease("v1", 1, MaxHistory)
    \/ \E l \in {0, 1} : directoryTransfer(l, "v1")
    \/ \E l \in {0, 1}, b \in BOOLEAN : directorySetValid(l, b)

SpecZero == Init /\ [][NextZero]_vars

\* Transfer grants: the first owner names the vet as approved address of the
\* animal or as operator of all their animals, and owners and vet try to move
\* the animal, the vet holding the owner's approval to write as well.
NextDelegate ==
    \/ linkVetLicense("v1", 1)
    \/ registerAnimal("v1", "o1", 1, "u1", 0)
    \/ \E c \in Owners : approveVet(c, "v1", 1)
    \/ write("v1", 1, VACCINE, 45, MaxHistory)
    \/ \E c \in Owners \cup {"v1"}, from \in Owners, to \in Owners :
            transfer(c, 1, from, to)
    \/ \E c \in Owners \cup {"v1"}, to \in {"v1", ZERO} : approve(c, to, 1)
    \/ \E operator \in {"v1", ZERO}, b \in BOOLEAN : setApprovalForAll("o1", operator, b)
    \/ directoryTransfer(1, "v1")
    \/ directorySetValid(1, TRUE)

SpecDelegate == Init /\ [][NextDelegate]_vars

\* ------------------------------------------------------------------ claims

\* the call that has just been executed
did(op, c, a) == last'.op = op /\ last'.caller = c /\ last'.animal = a

\* C1: a grant given by approveVet(A, V) at epoch E lets V's addMedicalRecord(A)
\* succeed exactly when A's epoch is still E at the write, V being licensed and
\* A active; and when a transfer of A completed between the grant and the
\* write, the write fails with AuthorizationExpiredOrMissing.
C1_GrantLiveIffSameEpoch ==
    [][\A a \in Animals, v \in Vets :
        (/\ did("addMedicalRecord", v, a)
         /\ grant[a][v].pending
         /\ onlyValidVet(v) = OK
         /\ exists(a))
        => /\ (last'.err = OK) <=> (tokenNonce[a] = grant[a][v].epoch)
           /\ grant[a][v].moved => last'.err = "AuthorizationExpiredOrMissing"]_vars

\* C2: a grant is single-use: once V has written to A, another addMedicalRecord
\* by V on A with no approveVet(A, V) in between fails with
\* AuthorizationExpiredOrMissing (V licensed, A active) and appends nothing.
C2_GrantSingleUse ==
    [][\A a \in Animals, v \in Vets :
        (/\ did("addMedicalRecord", v, a)
         /\ grant[a][v].by # ZERO
         /\ ~grant[a][v].pending)
        => /\ last'.err # OK
           /\ onlyValidVet(v) = OK /\ exists(a)
                => last'.err = "AuthorizationExpiredOrMissing"
           /\ history' = history
           /\ vaccineExpiration' = vaccineExpiration]_vars

C2_SecondWriteRefused ==
    /\ last = [Call("addMedicalRecord", "v1", 1, "AuthorizationExpiredOrMissing")
                EXCEPT !.daysValid = 45]
    /\ grant[1]["v1"].by # ZERO
    /\ ~grant[1]["v1"].pending
    /\ ~grant[1]["v1"].moved
    /\ ~grant[1]["v1"].ended
    /\ Len(history[1]) = 1
    /\ history[1][1].vet = "v1"

\* C3: the ownership epoch of an animal never decreases and never resets, and
\* each successful transfer increases it by exactly 1.
C3_EpochMonotonic ==
    [][\A a \in Animals :
        /\ tokenNonce'[a] >= tokenNonce[a]
        /\ last'.op = "transferFrom" /\ last'.animal = a /\ last'.err = OK
              => tokenNonce'[a] = tokenNonce[a] + 1]_vars

\* C4: a transfer of an active animal is refused whenever its vaccine is not
\* current (never vaccinated, or now >= expiry), and whenever the animal is
\* reported lost, whatever the other conditions; owner and epoch stay as they
\* were.
C4_TransferGates ==
    [][\A a \in Animals :
        (/\ last'.op = "transferFrom"
         /\ last'.animal = a
         /\ exists(a)
         /\ ~(now < vaccineExpiration[a]) \/ isLost[a])
        => /\ last'.err \in {"VaccinationExpired", "ReportedLost", "InvalidReceiver"}
           /\ ~(now < vaccineExpiration[a]) => last'.err # "ReportedLost"
           /\ now < vaccineExpiration[a] => last'.err # "VaccinationExpired"
           /\ owners' = owners
           /\ tokenNonce' = tokenNonce]_vars

\* the owner of a grown, found animal whose vaccine has lapsed is refused
C4_LapsedVaccineBlocks ==
    /\ last = Call("transferFrom", owners[1], 1, "VaccinationExpired")
    /\ exists(1)
    /\ \E i \in DOMAIN history[1] : history[1][i].timestamp < vaccineExpiration[1]
    /\ ~isLost[1]
    /\ birthDates[1] = T0
    /\ now >= T0 + SixtyDays

\* C5: with a birth date set, a current vaccine, the animal not lost and the
\* owner calling, a transfer fails with BelowMinimumAge while
\* now < birthDate + 60 days and succeeds from then on; the first transfer
\* after registration leaves owner = to and epoch = 2; with no birth date
\* there is no age gate.
C5_AgeGate ==
    [][\A c \in Owners, to \in Owners :
        (/\ transferFrom(c, 1, c, to)
         /\ owners[1] = c
         /\ now < vaccineExpiration[1]
         /\ ~isLost[1])
        => IF birthDates[1] > 0 /\ now - SixtyDays < birthDates[1]
           THEN last'.err = "BelowMinimumAge"
           ELSE /\ last'.err = OK
                /\ owners'[1] = to
                /\ tokenNonce[1] = 1 => tokenNonce'[1] = 2]_vars

\* C6: once a DECEASED record is in an animal's log, through addMedicalRecord
\* or through reportDecease, every later transfer and addMedicalRecord on it
\* fails because the animal is deceased, and the log keeps every record.
hasDeceasedRecord(a) ==
    \E i \in DOMAIN history[a] : history[a][i].recordType = DECEASED

C6_DeceasedRecordIsTerminal ==
    [][\A a \in Animals :
        (/\ hasDeceasedRecord(a)
         /\ last'.animal = a
         /\ last'.op \in {"transferFrom", "addMedicalRecord"})
        => /\ last'.err # OK
           /\ history'[a] = history[a]]_vars

\* C7: decease is terminal and chip ids are not reused: after a successful
\* reportDecease(A) the animal never has an owner again, and registerAnimal,
\* transferOwnership and addMedicalRecord on A are rejected.
deceased(a) == tokenNonce[a] > 0 /\ owners[a] = ZERO

C7_DeceaseIsTerminal ==
    [][\A a \in Animals :
        deceased(a)
        => /\ owners'[a] = ZERO
           /\ (/\ last'.animal = a
               /\ last'.op \in {"registerAnimal", "transferFrom", "addMedicalRecord"})
              => last'.err # OK]_vars

\* C8: the license is resolved anew on every privileged call: registerAnimal,
\* addMedicalRecord and reportDecease succeed only while the directory reports
\* the caller's bound license valid and owned by the caller; they fail with
\* NotLicensed while it does not, and pass the license check again, with the
\* binding untouched, as soon as it does.
VetOps == {"registerAnimal", "addMedicalRecord", "reportDecease"}

directoryVouches(v) ==
    /\ vetWalletToLicenseId[v] # 0
    /\ licOwner[vetWalletToLicenseId[v]] = v
    /\ licValid[vetWalletToLicenseId[v]]

C8_LicenseResolvedOnEveryCall ==
    [][\A v \in Vets :
        (last'.op \in VetOps /\ last'.caller = v)
        => /\ last'.err = OK => directoryVouches(v)
           /\ ~directoryVouches(v) => last'.err \in NotLicensed
           /\ directoryVouches(v) => last'.err \notin NotLicensed
           /\ vetWalletToLicenseId' = vetWalletToLicenseId]_vars

\* a vet refused since linking succeeds again without linking anew
C8_ReinstatedVetActs ==
    /\ last.op \in VetOps
    /\ last.err = OK
    /\ last.caller \in lapsed

C10_RegisterActiveIsAlreadyRegistered ==
    [][\A a \in Animals, v \in Vets :
        (did("registerAnimal", v, a) /\ directoryVouches(v) /\ exists(a))
        => /\ last'.err = "InvalidSender"
           /\ UNCHANGED <<owners, tokenNonce, birthDates, tokenURIs, isLost>>]_vars

\* C11: a successful registerAnimal on an id that was never registered yields
\* an active animal with the given owner, epoch 1, the given birth date and
\* metadata, and appends no medical record: its history is the empty sequence.
unregistered(a) == tokenNonce[a] = 0 /\ owners[a] = ZERO

C11_RegisterCreatesActive ==
    [][\A a \in Animals, v \in Vets :
        (did("registerAnimal", v, a) /\ last'.err = OK /\ unregistered(a))
        => /\ owners'[a] = Intake(a).owner
           /\ tokenNonce'[a] = 1
           /\ birthDates'[a] = Intake(a).birth
           /\ tokenURIs'[a] = Intake(a).uri
           /\ history'[a] = <<>>
           /\ \A b \in Animals \ {a} :
                 /\ owners'[b] = owners[b]
                 /\ tokenNonce'[b] = tokenNonce[b]
                 /\ birthDates'[b] = birthDates[b]
                 /\ history'[b] = history[b]]_vars

\* the second chip has just been registered, next to a first one with a record
C11_SecondChipRegistered ==
    /\ last = Call("registerAnimal", "v1", 2, OK)
    /\ owners[2] = "o2"
    /\ tokenNonce[2] = 1
    /\ birthDates[2] = T0
    /\ history[2] = <<>>
    /\ Len(history[1]) = 1

\* C12: a transfer evaluates its preconditions in the order active, vaccine
\* current, not lost, minimum age, caller authorized, and reports the first one
\* violated: an unauthorized caller on a lost animal with an expired vaccine
\* gets VaccinationExpired, on a lost but vaccinated animal ReportedLost, and
\* any call on an unregistered or deceased animal gets AnimalNotActive.
firstViolated(c, a) ==
    IF owners[a] = ZERO THEN "AnimalNotActive"
    ELSE IF ~(now < vaccineExpiration[a]) THEN "VaccinationExpired"
    ELSE IF isLost[a] THEN "ReportedLost"
    ELSE IF birthDates[a] > 0 /\ now - SixtyDays < birthDates[a] THEN "BelowMinimumAge"
    ELSE IF ~(c = owners[a] \/ tokenApprovals[a] = c \/ <<owners[a], c>> \in operatorApprovals)
         THEN "InsufficientApproval"
    ELSE OK

C12_TransferOrder ==
    [][\A a \in Animals, c \in Identities :
        (/\ did("transferFrom", c, a)
         /\ last'.err # "InvalidReceiver"
         /\ firstViolated(c, a) # OK)
        => IF firstViolated(c, a) = "AnimalNotActive"
           THEN last'.err \in AnimalNotActive
           ELSE last'.err = firstViolated(c, a)]_vars

\* C13: only a successful transfer advances an ownership epoch: approveVet,
\* addMedicalRecord, setLostStatus, reportDecease and linkVetLicense leave the
\* epoch of every animal unchanged, and so does a failed transfer.
EpochKeepers == {"approveVet", "addMedicalRecord", "setLostStatus", "reportDecease",
                 "linkVetLicense"}

C13_OnlyTransferAdvancesEpoch ==
    [][(\/ last'.op \in EpochKeepers
        \/ last'.op = "transferFrom" /\ last'.err # OK)
       => tokenNonce' = tokenNonce]_vars

\* C14: reportDecease on an animal that is not active, never registered or
\* already deceased, fails and appends no record to its history, although the
\* terminal record is written before the token is looked up.
C14_DeceaseOfInactiveAppendsNothing ==
    [][\A a \in Animals, v \in Vets :
        (did("reportDecease", v, a) /\ ~exists(a))
        => /\ last'.err # OK
           /\ onlyValidVet(v) = OK => last'.err \in AnimalNotActive
           /\ history' = history
           /\ UNCHANGED <<ledgerVars, vaccineExpiration, birthDates>>]_vars

\* a licensed vet reports again the decease of an animal already deceased
C14_SecondDeceaseRefused ==
    /\ last = Call("reportDecease", "v1", 1, "NonexistentToken")
    /\ onlyValidVet("v1") = OK
    /\ deceased(1)
    /\ Len(history[1]) = 1
    /\ history[1][1].recordType = DECEASED

\* C15: approveVet(caller, A, V) succeeds only when caller is the current owner
\* of the active animal A, and then sets the grant of (A, V) to A's current
\* epoch; anyone else fails with NotOwner, and a call on an unregistered or
\* deceased animal fails with AnimalNotActive, the authorization table staying
\* as it was.  After a transfer the new owner grants and the previous one
\* cannot.
C15_OnlyOwnerGrants ==
    [][\A a \in Animals, c \in Identities :
        did("approveVet", c, a)
        => /\ (last'.err = OK) <=> (exists(a) /\ owners[a] = c)
           /\ last'.err = OK
                => \E v \in Vets :
                      vetApprovalNonce' = [vetApprovalNonce EXCEPT ![a][v] = tokenNonce[a]]
           /\ ~exists(a) => last'.err \in AnimalNotActive
           /\ exists(a) /\ owners[a] # c => last'.err = "NotOwner"
           /\ last'.err # OK => vetApprovalNonce' = vetApprovalNonce]_vars

\* after the transfer the new owner has granted at epoch 2 and the previous
\* owner is refused
C15_PreviousOwnerRefused ==
    /\ last = Call("approveVet", "o1", 1, "NotOwner")
    /\ owners[1] = "o2"
    /\ tokenNonce[1] = 2
    /\ grant[1]["v1"].by = "o2"
    /\ vetApprovalNonce[1]["v1"] = 2

\* C16: approveVet does not look at the vet's license: the owner's grant
\* succeeds and stays pending while V has no license or an invalid one, and
\* once V holds a valid license of their own, be it after linking another
\* license id, and the epoch is the one of the grant, V's write succeeds on it.
C16_GrantOutlivesLicense ==
    [][\A a \in Animals :
        /\ \A c \in Owners :
              (did("approveVet", c, a) /\ exists(a) /\ owners[a] = c)
              => /\ last'.err = OK
                 /\ \E v \in Vets : /\ grant'[a][v].pending
                                    /\ grant'[a][v].stale = staleLicense(v)
                                    /\ vetApprovalNonce'[a][v] = tokenNonce[a]
        /\ \A v \in Vets :
              (/\ did("addMedicalRecord", v, a)
               /\ directoryVouches(v)
               /\ exists(a)
               /\ grant[a][v].pending
               /\ grant[a][v].epoch = tokenNonce[a])
              => /\ last'.err = OK
                 /\ Len(history'[a]) = Len(history[a]) + 1]_vars

\* the grant was given while v1 was bound to license 1, which the directory
\* did not vouch for; v1 has linked license 2 and written on that grant
C16_WriteAfterRelink ==
    /\ last = [Call("addMedicalRecord", "v1", 1, OK) EXCEPT !.daysValid = 45]
    /\ grant[1]["v1"].stale = 1
    /\ ~grant[1]["v1"].pending
    /\ vetWalletToLicenseId["v1"] = 2
    /\ Len(history[1]) = 1

\* C17: setLostStatus(caller, A, s) succeeds only for the current owner of an
\* active animal and then sets isLost[A] = s and nothing else; setting the
\* value the flag already has succeeds and leaves the state as it was; and an
\* owner's transfer that nothing but the flag could block fails with
\* ReportedLost while the flag is set and succeeds once it is cleared.
grown(a) == birthDates[a] = 0 \/ now - SixtyDays >= birthDates[a]

C17_LostFlag ==
    [][\A a \in Animals, c \in Identities :
        /\ did("setLostStatus", c, a)
              => /\ (last'.err = OK) <=> (exists(a) /\ owners[a] = c)
                 /\ last'.err = OK => isLost' = [isLost EXCEPT ![a] = last'.status]
                 /\ last'.err # OK => isLost' = isLost
                 /\ ~exists(a) => last'.err \in AnimalNotActive
                 /\ exists(a) /\ owners[a] # c => last'.err = "NotOwner"
                 /\ UNCHANGED <<owners, tokenApprovals, operatorApprovals, tokenURIs,
                                tokenNonce, vetApprovalNonce, vetWalletToLicenseId,
                                storageVars>>
        /\ (/\ did("transferFrom", c, a)
            /\ owners[a] = c
            /\ now < vaccineExpiration[a]
            /\ grown(a)
            /\ last'.err \notin {"InvalidReceiver", "IncorrectOwner"})
              => last'.err = IF isLost[a] THEN "ReportedLost" ELSE OK]_vars

\* the new owner of a vaccinated animal declares it found
C17_NewOwnerClearsFlag ==
    /\ last = [Call("setLostStatus", "o2", 1, OK) EXCEPT !.status = FALSE]
    /\ owners[1] = "o2"
    /\ tokenNonce[1] = 2
    /\ ~isLost[1]
    /\ now < vaccineExpiration[1]

\* C18: linkVetLicense(V, L) succeeds exactly when the directory reports V as
\* the owner of L and L as valid at the time of the call; the binding of V then
\* becomes L, whatever it was; a failed call, NotLicenseOwner or LicenseInvalid,
\* leaves it as it was; and no call by another identity changes the binding of
\* V.
C18_LinkBindsOwnLicense ==
    [][\A v \in Identities :
        /\ (last'.op = "linkVetLicense" /\ last'.caller = v)
              => /\ (last'.err = OK) <=> (/\ licOwner[last'.licenseId] = v
                                          /\ licValid[last'.licenseId])
                 /\ last'.err = OK
                      => vetWalletToLicenseId' =
                            [vetWalletToLicenseId EXCEPT ![v] = last'.licenseId]
                 /\ last'.err # OK
                      => /\ vetWalletToLicenseId' = vetWalletToLicenseId
                         /\ last'.err \in LinkErrors
        /\ vetWalletToLicenseId'[v] # vetWalletToLicenseId[v]
              => last'.op = "linkVetLicense" /\ last'.caller = v]_vars

\* v1, who was granted while bound to license 1, has now linked license 2
\* while v2 is bound to license 1
C18_BindingOverwritten ==
    /\ last = [Call("linkVetLicense", "v1", 0, OK) EXCEPT !.licenseId = 2]
    /\ vetWalletToLicenseId["v1"] = 2
    /\ grant[1]["v1"].stale = 1
    /\ vetWalletToLicenseId["v2"] = 1

\* C19: the vaccine expiry is overwritten, not accumulated: after every
\* appended VACCINE record it is the time of the append plus daysValid days,
\* whatever it was before, so that a later vaccine of smaller validity, 0
\* included, shortens or ends the validity; a record of any other type leaves
\* it unchanged.
C19_ExpiryOverwritten ==
    [][\A a \in Animals, v \in Vets :
        /\ (did("addMedicalRecord", v, a) /\ last'.err = OK)
              => LET e == history'[a][Len(history'[a])] IN
                 /\ history'[a] = Append(history[a], e)
                 /\ e.timestamp = now
                 /\ vaccineExpiration'[a] = IF e.recordType = VACCINE
                                            THEN now + last'.daysValid * Day
                                            ELSE vaccineExpiration[a]
                 /\ \A b \in Animals \ {a} :
                       vaccineExpiration'[b] = vaccineExpiration[b]
        /\ (did("reportDecease", v, a) /\ last'.err = OK)
              => /\ history'[a][Len(history'[a])].recordType = DECEASED
                 /\ vaccineExpiration' = vaccineExpiration]_vars

\* a second vaccine, given later than the first with daysValid 0, leaves the
\* animal without a current vaccine
C19_LaterVaccineEndsValidity ==
    /\ last = Call("addMedicalRecord", "v1", 1, OK)
    /\ Len(history[1]) = 2
    /\ history[1][1].recordType = VACCINE
    /\ history[1][2].recordType = VACCINE
    /\ history[1][1].timestamp < history[1][2].timestamp
    /\ vaccineExpiration[1] = now
    /\ ~isVaccineValid(1)

\* C20: the vaccine of an animal is current exactly when now is before its
\* expiry: it is not for an animal never vaccinated, it is immediately after a
\* VACCINE record with daysValid > 0, and it is no longer once now has reached
\* the timestamp of the latest VACCINE record plus its days of validity.
vaccinated(a) == \E i \in DOMAIN history[a] : history[a][i].recordType = VACCINE

latestVaccine(a) ==
    LET i == CHOOSE i \in DOMAIN history[a] :
                /\ history[a][i].recordType = VACCINE
                /\ \A j \in DOMAIN history[a] :
                      history[a][j].recordType = VACCINE => j <= i
    IN history[a][i]

C20_VaccineCurrentUntilExpiry ==
    [][\A a \in Animals :
        /\ isVaccineValid(a) <=> now < vaccineExpiration[a]
        /\ ~vaccinated(a) => ~isVaccineValid(a)
        /\ vaccinated(a)
              => \E d \in VaccineDays :
                    /\ vaccineExpiration[a] = latestVaccine(a).timestamp + d * Day
                    /\ isVaccineValid(a) <=> now < latestVaccine(a).timestamp + d * Day
        /\ (/\ last'.op = "addMedicalRecord" /\ last'.animal = a /\ last'.err = OK
            /\ history'[a][Len(history'[a])].recordType = VACCINE
            /\ last'.daysValid > 0)
              => isVaccineValid(a)'
        /\ (now' >= vaccineExpiration[a] /\ history'[a] = history[a])
              => ~isVaccineValid(a)']_vars

\* a vaccine of thirty days given at deployment, seen at the second it expires
C20_LapsedAtExpiry ==
    /\ last.op = "tick"
    /\ vaccinated(1)
    /\ latestVaccine(1).timestamp = T0
    /\ vaccineExpiration[1] = T0 + 30 * Day
    /\ now = vaccineExpiration[1]
    /\ ~isVaccineValid(1)

\* C21: the history of every animal is append-only and ordered oldest first:
\* a step leaves it unchanged or adds exactly one record at its end, and only
\* a successful addMedicalRecord or reportDecease adds one; no record is ever
\* modified or removed, not by a transfer, a decease, a registration or a
\* failed call; and timestamps never decrease along the sequence.
Writers == {"addMedicalRecord", "reportDecease"}

C21_HistoryAppendOnly ==
    [][\A a \in Animals :
        /\ \/ history'[a] = history[a]
           \/ /\ Len(history'[a]) = Len(history[a]) + 1
              /\ SubSeq(history'[a], 1, Len(history[a])) = history[a]
              /\ history'[a][Len(history'[a])].timestamp = now
              /\ last'.op \in Writers /\ last'.animal = a /\ last'.err = OK
        /\ \A i, j \in DOMAIN history'[a] :
              i <= j => history'[a][i].timestamp <= history'[a][j].timestamp]_vars

\* a record written after the clock advanced follows one kept through a
\* decease and a second registration of the chip
C21_LogOutlivesRegistration ==
    /\ last.op = "addMedicalRecord"
    /\ last.err = OK
    /\ Len(history[1]) = 2
    /\ history[1][1].recordType = DECEASED
    /\ history[1][1].timestamp < history[1][2].timestamp

\* C22: every operation is all-or-nothing: when registerAnimal, approveVet,
\* addMedicalRecord, setLostStatus, a transfer, reportDecease or
\* linkVetLicense fails, owners, epochs, lost flags, birth dates, the
\* authorizations, the license bindings, the vaccine expiries and every
\* history are as they were before the call.
Operations == {"registerAnimal", "approveVet", "addMedicalRecord", "setLostStatus",
               "transferFrom", "reportDecease", "linkVetLicense"}

C22_AllOrNothing ==
    [][(last'.op \in Operations /\ last'.err # OK)
       => UNCHANGED <<owners, tokenNonce, isLost, birthDates, vetApprovalNonce,
                      vetWalletToLicenseId, vaccineExpiration, history,
                      tokenApprovals, operatorApprovals, tokenURIs>>]_vars

\* a second registration of an active, vaccinated chip is refused at the mint,
\* after its birth date and nonce were written: the stored ones are kept
C22_RefusedAtMint ==
    /\ last = Call("registerAnimal", "v1", 1, "InvalidSender")
    /\ owners[1] = "o1"
    /\ birthDates[1] = T0
    /\ tokenNonce[1] = 1
    /\ Len(history[1]) = 1

\* the transfer rules of the hook let animal a go
gatesOpen(a) == updateRules(a, owners[a], birthDates[a]) = OK

\* the call before this one was a completed transferFrom of a sent by c
justTransferred(c, a) ==
    /\ last.op = "transferFrom" /\ last.caller = c /\ last.animal = a
    /\ last.err = OK

\* C23: of two transferFrom calls on animal A issued by the owner O with
\* from = O to recipients other than O, applied one after the other with no
\* other operation in between while A passes the transfer rules, exactly one
\* succeeds: the first raises the epoch by exactly 1 and makes its recipient
\* the owner, and the second fails against that state and changes nothing.
C23_OneTransferWins ==
    [][\A c \in Identities :
        /\ (did("transferFrom", c, 1) /\ owners[1] = c /\ gatesOpen(1))
           => /\ last'.err = OK
              /\ tokenNonce'[1] = tokenNonce[1] + 1
              /\ last'.to # c /\ owners'[1] = last'.to
        /\ (did("transferFrom", c, 1) /\ justTransferred(c, 1))
           => /\ last'.err # OK
              /\ UNCHANGED <<ledgerVars, storageVars>>]_vars

\* the second of two transfers by the same sender has been refused, the
\* animal staying with the recipient of the first at the epoch it reached
C23_LoserRefused ==
    /\ last = Call("transferFrom", "o1", 1, "InsufficientApproval")
    /\ owners[1] = "o2" /\ tokenNonce[1] = 2
    /\ gatesOpen(1)

\* C23 as stated, whatever the transfer rules say of A: the first of the two
\* calls by the owner succeeds.
C23_OwnerAlwaysWins ==
    [][\A c \in Identities :
        (did("transferFrom", c, 1) /\ owners[1] = c /\ ~justTransferred(c, 1))
        => last'.err = OK]_vars

StorageWrites == {"addEntry", "setBirthDate"}
LedgerWrites == {"registerAnimal", "addMedicalRecord", "reportDecease"}

\* C24: addEntry and setBirthDate called by anybody but the configured
\* controller fail and leave vaccine expiry, birth dates and histories as they
\* were; the record log changes only through the AnimalNFT contract while that
\* contract is the controller; and only the administrator of the record log
\* changes who the controller is.
C24_SoleWriter ==
    [][/\ (last'.op \in StorageWrites /\ last'.caller # controllerContract)
          => last'.err # OK /\ UNCHANGED storageVars
       /\ (storageVars' # storageVars /\ controllerContract = LEDGER)
          => last'.op \in LedgerWrites /\ last'.err = OK
       /\ controllerContract' # controllerContract
          => /\ last'.op = "setController" /\ last'.err = OK
             /\ last'.caller = storageOwner]_vars

\* an owner has called addEntry on the log of a registered animal and has
\* been refused, the AnimalNFT contract being the controller
C24_StrangerRefused ==
    /\ last = [Call("addEntry", "o1", 1, "NotController") EXCEPT !.daysValid = 45]
    /\ controllerContract = LEDGER
    /\ owners[1] = "o1" /\ Len(history[1]) = 1

\* C25: the birth date of an animal is set once, at registration, and never
\* changes afterwards: a call that would set it again is rejected instead of
\* overwriting the stored value.
C25_BirthDateSetOnce ==
    [][\A a \in Animals :
        birthDates[a] # 0 => birthDates'[a] = birthDates[a]]_vars

\* C26: a transfer of an animal to a new owner whom the governance has not
\* marked as apt is blocked, even when the animal is vaccinated, not lost and
\* old enough: every completed transferFrom has an apt recipient.
C26_RecipientIsApt ==
    [][(last'.op = "transferFrom" /\ last'.err = OK) => last'.to \in aptOwners]_vars

\* C27: every successful addMedicalRecord(V, A) is backed by a grant from the
\* present owner: the latest approveVet(A, V) was invoked by the address that
\* owns A at the write, and no transfer, decease or registration of A lies
\* between that grant and the write; a grant given before a decease is of no
\* use once the chip is registered again.
C27_WriteBackedByOwnersGrant ==
    [][\A a \in Animals, v \in Vets :
        (did("addMedicalRecord", v, a) /\ last'.err = OK)
        => /\ grant[a][v].pending
           /\ grant[a][v].by = owners[a]
           /\ ~grant[a][v].moved
           /\ ~grant[a][v].ended]_vars

\* C28: right after a successful registerAnimal(A) the animal starts clean,
\* whatever happened to the chip before: it is not flagged lost, its vaccine
\* is not current and its history is empty.
C28_RegisteredClean ==
    [][\A a \in Animals :
        (last'.op = "registerAnimal" /\ last'.animal = a /\ last'.err = OK)
        => /\ ~isLost'[a]
           /\ ~(now' < vaccineExpiration'[a])
           /\ history'[a] = <<>>]_vars

\* C29: in every reachable state an active animal has an epoch of at least 1,
\* so the 0 that stands for an absent or consumed approval never equals the
\* epoch of an active animal, and addMedicalRecord by a vet who was never
\* granted, or whose grant was consumed, is refused.
C29_ZeroIsNoEpoch ==
    /\ [](\A a \in Animals : exists(a) => tokenNonce[a] >= 1)
    /\ [][\A a \in Animals, v \in Vets :
            (/\ did("addMedicalRecord", v, a)
             /\ (vetApprovalNonce[a][v] = 0 \/ ~grant[a][v].pending))
            => /\ last'.err # OK
               /\ exists(a) /\ onlyValidVet(v) = OK
                  => last'.err = "AuthorizationExpiredOrMissing"]_vars

\* a licensed vet whom nobody ever granted has tried to write to an active
\* animal and has been refused
C29_UngrantedVetRefused ==
    /\ last = [Call("addMedicalRecord", "v1", 1, "AuthorizationExpiredOrMissing")
                 EXCEPT !.daysValid = 45]
    /\ grant[1]["v1"].by = ZERO
    /\ vetApprovalNonce[1]["v1"] = 0
    /\ exists(1) /\ tokenNonce[1] >= 1

\* what the contracts hold about one animal
about(a) == <<owners[a], tokenNonce[a], isLost[a], birthDates[a], vaccineExpiration[a],
              history[a], vetApprovalNonce[a]>>

\* C30: operations are isolated per animal and per vet: an operation on one
\* animal leaves owner, epoch, lost flag, birth date, vaccine expiry, history
\* and approvals of every other animal as they were; addMedicalRecord(V, A)
\* succeeds only on a grant given for A to V, whatever was granted to other vets
\* on A or to V on other animals; and it consumes the approval of V on A only.
C30_Isolation ==
    [][\A a \in Animals :
        /\ last'.animal # a => about(a)' = about(a)
        /\ \A v \in Vets :
              (did("addMedicalRecord", v, a) /\ last'.err = OK)
              => /\ grant[a][v].pending
                 /\ vetApprovalNonce[a][v] = tokenNonce[a]
                 /\ vetApprovalNonce'[a][v] = 0
                 /\ \A w \in Identities \ {v} :
                        vetApprovalNonce'[a][w] = vetApprovalNonce[a][w]]_vars

\* one vet has written to the first animal while the grant of the other vet
\* on that animal and the writer's own grant on the second animal stay live
C30_OtherGrantsLive ==
    /\ last = [Call("addMedicalRecord", "v1", 1, OK) EXCEPT !.daysValid = 45]
    /\ exists(1) /\ exists(2)
    /\ vetApprovalNonce[1]["v1"] = 0
    /\ vetApprovalNonce[1]["v2"] = tokenNonce[1]
    /\ vetApprovalNonce[2]["v1"] = tokenNonce[2]
    /\ Len(history[2]) = 0

\* C31: a vet whose linkVetLicense(L) has succeeded passes the license check
\* of registerAnimal, addMedicalRecord and reportDecease while L is valid and
\* owned by them, for every identifier L the directory issues, 0 included:
\* the call that follows the link is not refused for want of a license.
C31_LinkedVetPasses ==
    [][\A v \in Vets :
        (/\ last.op = "linkVetLicense" /\ last.caller = v /\ last.err = OK
         /\ licOwner[last.licenseId] = v /\ licValid[last.licenseId]
         /\ last'.op \in VetOps /\ last'.caller = v)
        => last'.err \notin NotLicensed]_vars

FlagKeepers == {"approveVet", "addMedicalRecord", "reportDecease"}

\* C32: the lost flag gates transfers only: approveVet and setLostStatus
\* succeed for the owner of an active animal, addMedicalRecord for a licensed
\* vet with a live grant and reportDecease for a licensed vet, whether the
\* animal is reported lost or not, and none of them but setLostStatus changes
\* the flag.
C32_FlagGatesTransfersOnly ==
    [][\A a \in Animals, c \in Identities :
        /\ (did("approveVet", c, a) \/ did("setLostStatus", c, a))
              => ((last'.err = OK) <=> (exists(a) /\ owners[a] = c))
        /\ did("addMedicalRecord", c, a)
              => ((last'.err = OK) <=>
                    (/\ onlyValidVet(c) = OK /\ exists(a) /\ hasApproval(a, c)
                     /\ controllerContract = LEDGER
                     /\ ~entryOverflows(VACCINE, last'.daysValid)))
        /\ did("reportDecease", c, a)
              => ((last'.err = OK) <=>
                    (/\ onlyValidVet(c) = OK /\ exists(a)
                     /\ controllerContract = LEDGER))
        /\ last'.op \in FlagKeepers => isLost' = isLost]_vars

\* a vet has written to an animal that is reported lost
C32_LostAnimalTreated ==
    /\ last = [Call("addMedicalRecord", "v1", 1, OK) EXCEPT !.daysValid = 45]
    /\ isLost[1]
    /\ exists(1)
    /\ Len(history[1]) = 1

\* c may move animal a: c owns it, is the address the token is approved to, or
\* is an operator of its owner
mayMove(c, a) ==
    \/ owners[a] = c
    \/ tokenApprovals[a] = c
    \/ <<owners[a], c>> \in operatorApprovals

\* C33: only the current owner, or somebody holding a transfer grant of the
\* current ownership, moves an animal: every other transferFrom fails and
\* leaves owner and epoch alone, a vet's approval to write included; a
\* completed transfer clears the token's transfer grant, so that neither the
\* grant of the previous owner nor the previous owner can move the animal
\* again; and a token has an approved address only while it has an owner.
C33_OnlyOwnerOrGrantee ==
    /\ [](\A a \in Animals : tokenApprovals[a] # ZERO => exists(a))
    /\ [][\A a \in Animals, c \in Identities :
            /\ (did("transferFrom", c, a) /\ ~(exists(a) /\ mayMove(c, a)))
                  => /\ last'.err # OK
                     /\ UNCHANGED <<owners, tokenNonce, tokenApprovals>>
            /\ (did("transferFrom", c, a) /\ last'.err = OK)
                  => /\ tokenApprovals'[a] = ZERO
                     /\ owners'[a] # c /\ <<owners'[a], c>> \notin operatorApprovals'
                        => ~mayMove(c, a)']_vars

\* the vet holding the owner's approval to write has tried to move a
\* vaccinated animal and has been refused
C33_VetCannotTransfer ==
    /\ last = Call("transferFrom", "v1", 1, "InsufficientApproval")
    /\ exists(1)
    /\ vetApprovalNonce[1]["v1"] = tokenNonce[1]
    /\ isVaccineValid(1) /\ ~isLost[1]

====
